---------------------------- MODULE Spec2Model ----------------------------
(***************************************************************************)
(* Model of the camera-trap batch API task lifecycle:                      *)
(*   api/batch_processing/data_preparation/prepare_api_submission.py       *)
(*     (Task, divide_chunks, divide_files_into_tasks)                      *)
(*   api/batch_processing/data_preparation/manage_api_submission.py        *)
(*     (the cells of the semi-automated driver script)                     *)
(*                                                                         *)
(* Image paths are the integers 1..NItems (sorted() is ascending order);   *)
(* 0 stands for a string that is not an image file name.  A Python         *)
(* attribute that has not been set is NoAttr.  Each cell of the driver is  *)
(* one action: the script is single-threaded, a cell reads each task's     *)
(* remote state once, and the remote tasks evolve independently, so the    *)
(* remote steps commute with the iterations of a running cell.  A cell     *)
(* that raises stops where it raised; what it did before stays done and    *)
(* the exception is kept in `error`.                                       *)
(***************************************************************************)
EXTENDS Integers, Sequences, FiniteSets, TLC

(* ------------------------------ bounds -------------------------------- *)

\* image paths in the storage container
NItems == 3
\* longest list handed to divide_chunks in ChunkSpec
MaxLen == 4
\* largest chunk size tried
MaxChunk == 3
\* largest number of files per task tried
MaxPerTask == 2
\* largest tolerance tried (the script sets 20, more than any modelled list)
MaxTolerance == 2
\* requests the remote service accepts in a run
MaxRemote == 2
\* tasks a taskgroup may grow to
MaxTasks == 4
\* characters before and after the run of a request name
MaxAffix == 1
\* entries of the list file of the one Task that are written out
MaxUnitLen == 2

(* ------------------------- program constants -------------------------- *)

MAX_FILES_PER_API_TASK == 1000000

folder_names == <<"folder1", "folder2">>

\* a name or attribute that is not set: of a list, a dict or a path; of an
\* id or a URL of the service; of a response
NoAttr == <<>>
NoId == 0
NoResponse == [TaskId |-> NoId, request_status |-> "NoAttr", output_file_urls |-> NoId]
NotImage == 0
Items == 1..NItems

(* ------------------------------ helpers ------------------------------- *)

Min(a, b) == IF a < b THEN a ELSE b
Max(a, b) == IF a > b THEN a ELSE b

Range(s) == {s[k] : k \in DOMAIN s}

SeqsUpTo(S, m) == UNION {[1..k -> S] : k \in 0..m}

RECURSIVE Flatten(_)
Flatten(ss) == IF ss = <<>> THEN <<>> ELSE Head(ss) \o Flatten(Tail(ss))

\* Python sorted(S) of a set of paths
RECURSIVE sorted(_)
sorted(S) ==
    IF S = {} THEN <<>>
    ELSE LET m == CHOOSE x \in S : \A y \in S : x <= y
         IN  <<m>> \o sorted(S \ {m})

\* path_utils.is_image_file: the name has an image extension
is_image_file(s) == s \in Items

(* ------------------------------ chunker ------------------------------- *)

\* Python a // b for b # 0 (b = 0 raises ZeroDivisionError): the floor of the
\* quotient, also for a negative divisor
FloorDiv(a, b) == IF b > 0 THEN a \div b ELSE (0 - a) \div (0 - b)

\* a slice index as Python reads it: a negative one counts from the end, and
\* both ends are clipped to 0..len(l)
SliceIndex(l, a) == IF a < 0 THEN Max(a + Len(l), 0) ELSE Min(a, Len(l))

\* Python slice l[a:b]
Slice(l, a, b) == SubSeq(l, SliceIndex(l, a) + 1, SliceIndex(l, b))

\* faulty variant: the last, shorter chunk is dropped (len(l) // n chunks)
divide_chunks_floor(l, n) ==
    [i \in 1..(Len(l) \div n) |-> Slice(l, (i - 1) * n, i * n)]

\* faulty variant: one chunk too many when n divides len(l) (len(l) // n + 1 chunks)
divide_chunks_extra(l, n) ==
    [i \in 1..((Len(l) \div n) + 1) |-> Slice(l, (i - 1) * n, i * n)]

\* chunks = [l[i * n:(i + 1) * n] for i in range((len(l) + n - 1) // n)]
\* (n # 0; range() of a negative number is empty)
divide_chunks(l, n) ==
    [i \in 1..FloorDiv(Len(l) + n - 1, n) |-> Slice(l, (i - 1) * n, i * n)]

\* divide_files_into_tasks: the chunks, written to <base>.chunkNNN.json
divide_files_into_tasks(file_list, n_files) == divide_chunks(file_list, n_files)


(* ------------------------------- state -------------------------------- *)

VARIABLES
    \* ChunkSpec: the arguments and the result of one divide_chunks call
    arg_l, arg_n, ret_chunks,
    \* configuration of the run
    n_files_per_task, max_tolerable_missing_images,
    \* the driver script's globals
    file_lists_by_folder, folder_chunks, taskgroups,
    resubmitted_tasks, n_resubmissions,
    task_id_to_results_file, folder_name_to_combined_output_file,
    \* the id the last returning submit of cell "Run the tasks" left in the
    \* global task_id (NoId: the name is not bound)
    task_id,
    \* local files and uploaded blobs: path -> JSON content
    files, blobs,
    \* the batch API: request id -> task on the remote side
    remote,
    \* the exception that ended the last cell, or "none"
    error,
    \* bookkeeping for the properties (not program state):
    \* for each task, <<the task it was synthesized from, that task's remote
    \* id then>> or <<0, 0>>; the remote ids whose missing list was obtained;
    \* the tasks the last reconciliation pass found and what each iteration
    \* ended with; the outcome of the last cross-check of each folder; the
    \* warnings the last reconciliation or combination printed
    synthesized_from, reconciled, pass_work, pass_log, checked, warnings,
    \* the tasks the last run of the cell "Run the tasks" found, and for each
    \* submit it made "returned" or the exception raised (kept in SubmitSpec only)
    submit_log,
    \* NameSpec: a request name and what clean_request_name made of it
    naming,
    \* TaskSpec: one Task object and the last call made on it
    unit

chunkVars == <<arg_l, arg_n, ret_chunks>>

\* no call of divide_chunks made yet
NoChunks == [returned |-> FALSE, chunks |-> <<>>, error |-> "none"]

unitVars == <<naming, unit>>

\* the values of these variables where they are not in use
NoLog == [kept |-> FALSE, work |-> <<>>, outcomes |-> <<>>]
NoNaming == [x |-> <<>>, calls |-> <<>>]

configVars == <<n_files_per_task, max_tolerable_missing_images>>

scriptVars == <<file_lists_by_folder, folder_chunks, taskgroups,
                resubmitted_tasks, n_resubmissions, task_id_to_results_file,
                folder_name_to_combined_output_file, task_id, files, blobs,
                error>>

ghostVars == <<synthesized_from, reconciled, pass_work, pass_log, checked, warnings>>

vars == <<chunkVars, unitVars, submit_log, configVars, scriptVars, remote,
         ghostVars>>

Folders == DOMAIN folder_names

\* blobs of the container under a folder's prefix, as enumerate_blobs_to_file
\* lists them: the last image lies in the second folder, the others in the first
FolderOf(x) == IF x = NItems THEN 2 ELSE 1

ListPath(i) == <<"list", i, 0>>
ChunkPath(i, j) == <<"chunk", i, j>>
MissingPath(rid) == <<"missing", rid, 0>>
RawPath(rid) == <<"raw", rid, 0>>
CombinedPath(i) == <<"combined", i, 0>>

\* open(path, 'w') ... json.dump / write_list_to_file
WriteFile(fs, path, content) == (path :> content) @@ fs

(* ---------------------------- request names -------------------------- *)

\* A string is the sequence of its characters.
\* VALID_REQUEST_NAME_CHARS = f'-_{string.ascii_letters}{string.digits}'
VALID_REQUEST_NAME_CHARS ==
    {"-", "_"}
    \cup {"a", "b", "c", "d", "e", "f", "g", "h", "i", "j", "k", "l", "m",
          "n", "o", "p", "q", "r", "s", "t", "u", "v", "w", "x", "y", "z"}
    \cup {"A", "B", "C", "D", "E", "F", "G", "H", "I", "J", "K", "L", "M",
          "N", "O", "P", "Q", "R", "S", "T", "U", "V", "W", "X", "Y", "Z"}
    \cup {"0", "1", "2", "3", "4", "5", "6", "7", "8", "9"}

REQUEST_NAME_CHAR_LIMIT == 92

\* path_utils.clean_filename: the characters of the whitelist are kept, in
\* order, and the first char_limit of them are returned
clean_filename(filename, whitelist, char_limit) ==
    LET kept == SelectSeq(filename, LAMBDA c : c \in whitelist)
    IN  SubSeq(kept, 1, Min(char_limit, Len(kept)))

\* faulty variant: the period is let through
clean_request_name_period(request_name, whitelist, char_limit) ==
    clean_filename(request_name, whitelist \cup {"."}, char_limit)

\* faulty variant: a name over the limit loses its first character only
clean_request_name_shift(request_name, whitelist, char_limit) ==
    LET kept == SelectSeq(request_name, LAMBDA c : c \in whitelist)
    IN  IF Len(kept) > char_limit THEN Tail(kept) ELSE kept

\* clean_request_name(request_name, whitelist, char_limit)
clean_request_name(request_name, whitelist, char_limit) ==
    clean_filename(request_name, whitelist, char_limit)

\* clean_request_name(name), with the default whitelist and limit
CleanName(name) ==
    clean_request_name(name, VALID_REQUEST_NAME_CHARS, REQUEST_NAME_CHAR_LIMIT)

(* -------------------------------- Task -------------------------------- *)

\* faulty variant: a list of exactly the maximum length is too long
TooManyFiles_at_limit(n) == n >= MAX_FILES_PER_API_TASK

\* len(images_list) > MAX_FILES_PER_API_TASK
TooManyFiles(n) == n > MAX_FILES_PER_API_TASK

\* faulty variant: only the first entry of the list is looked at
ValidateImagesList_first(images_list, n_more) ==
    IF TooManyFiles(Len(images_list) + n_more) THEN "ValueError"
    ELSE IF images_list # <<>> /\ ~is_image_file(images_list[1])
         THEN "ValueError"
         ELSE "none"

\* the validation of Task.__init__: the error it raises, if any.  The list
\* is images_list followed by n_more further image paths.
ValidateImagesList(images_list, n_more) ==
    IF TooManyFiles(Len(images_list) + n_more) THEN "ValueError"
    ELSE IF \E k \in DOMAIN images_list : ~is_image_file(images_list[k])
         THEN "ValueError"
         ELSE "none"

\* Task.__init__ with validate=True: the error it raises, if any
TaskInitError(images_list) == ValidateImagesList(images_list, 0)

\* a Task object none of whose attributes is set
Task0 ==
    [name |-> <<>>,
     local_images_list_path |-> NoAttr,
     remote_images_list_url |-> NoAttr,
     api_request |-> NoAttr,
     id |-> NoId,
     response |-> NoResponse]

\* the assignments of Task.__init__: the clean name, and the path or the URL
TaskInit(name, images_list_path, local) ==
    [Task0 EXCEPT !.name = CleanName(name),
                  !.local_images_list_path =
                      IF local THEN images_list_path ELSE NoAttr,
                  !.remote_images_list_url =
                      IF local THEN NoAttr ELSE images_list_path]

\* Task.__init__ with local=True: only the local path is set
Task(name, images_list_path) ==
    [name |-> name,
     local_images_list_path |-> images_list_path,
     remote_images_list_url |-> NoAttr,
     api_request |-> NoAttr,
     id |-> NoId,
     response |-> NoResponse]

\* faulty variant: the upload moves the list, the local path is forgotten
upload_images_list_moved(task, blob_name) ==
    [task EXCEPT !.remote_images_list_url = blob_name,
                 !.local_images_list_path = NoAttr]

\* Task.upload_images_list: the blob's URL; the blob holds the local list
upload_images_list(task, blob_name) ==
    [task EXCEPT !.remote_images_list_url = blob_name]

\* no extra parameters: an empty **kwargs
NoKwargs == [k \in {} |-> TRUE]

\* Task.generate_api_request(caller, input_container_url, image_path_prefix,
\* **kwargs); "None" stands for None.  request = kwargs, then update()
\* overwrites the three fixed keys, then the addressing key and the prefix
\* are set.
generate_api_request_kwargs(task, caller, input_container_url, image_path_prefix, kwargs) ==
    LET request == ("request_name" :> task.name)
                   @@ ("caller" :> caller)
                   @@ ("images_requested_json_sas" :> task.remote_images_list_url)
                   @@ kwargs
        addressed == IF input_container_url = "None"
                     THEN ("use_url" :> TRUE) @@ request
                     ELSE ("input_container_sas" :> input_container_url) @@ request
        prefixed == IF image_path_prefix = "None" THEN addressed
                    ELSE ("image_path_prefix" :> image_path_prefix) @@ addressed
    IN  [task EXCEPT !.api_request = prefixed]

\* Task.generate_api_request with image_path_prefix=None and no extra kwargs
generate_api_request(task, input_container_url) ==
    generate_api_request_kwargs(task, "caller", input_container_url, "None",
                                NoKwargs)

read_only_sas_url == "read_only_sas_url"

\* the status document the service returns for a request id
StatusOf(rid) ==
    [TaskId |-> rid,
     request_status |-> remote[rid].request_status,
     output_file_urls |-> IF remote[rid].request_status = "completed"
                          THEN rid ELSE NoId]

\* set(submitted_images) - set(processed_images), sorted
MissingImages(submitted_images, processed_images) ==
    sorted(Range(submitted_images) \ Range(processed_images))

\* faulty variant: the task's own images list is diffed, not the list the service
\* reports under 'images'
get_missing_images_local(task) ==
    IF task.response.request_status # "completed"
    THEN [error |-> "AssertionError:271", missing_images |-> <<>>]
    ELSE
    LET out == remote[task.response.output_file_urls]
        missing_images == MissingImages(files[task.local_images_list_path],
                                        out.detections)
    IN  IF \E k \in DOMAIN out.images : ~is_image_file(out.images[k])
        THEN [error |-> "AssertionError:284", missing_images |-> <<>>]
        ELSE IF \E k \in DOMAIN out.failed_images : ~is_image_file(out.failed_images[k])
        THEN [error |-> "AssertionError:285", missing_images |-> <<>>]
        ELSE IF ~(Range(out.failed_images) \subseteq Range(missing_images))
        THEN [error |-> "AssertionError:300", missing_images |-> <<>>]
        ELSE [error |-> "none", missing_images |-> missing_images]

\* faulty variant: the failed images are not compared with the missing images
get_missing_images_unchecked(task) ==
    IF task.response.request_status # "completed"
    THEN [error |-> "AssertionError:271", missing_images |-> <<>>]
    ELSE
    LET out == remote[task.response.output_file_urls]
        missing_images == MissingImages(out.images, out.detections)
    IN  IF \E k \in DOMAIN out.images : ~is_image_file(out.images[k])
        THEN [error |-> "AssertionError:284", missing_images |-> <<>>]
        ELSE IF \E k \in DOMAIN out.failed_images : ~is_image_file(out.failed_images[k])
        THEN [error |-> "AssertionError:285", missing_images |-> <<>>]
        ELSE [error |-> "none", missing_images |-> missing_images]

\* faulty variant: the status of the request is not looked at, and the lists
\* the service holds so far are diffed
get_missing_images_any_status(task) ==
    LET out == remote[task.response.TaskId]
    IN  [error |-> "none",
         missing_images |-> MissingImages(out.images_requested, out.detections)]

\* Task.get_missing_images: [error, missing_images]
get_missing_images(task) ==
    IF task.response.request_status # "completed"
    THEN [error |-> "AssertionError:271", missing_images |-> <<>>]
    ELSE
    LET out == remote[task.response.output_file_urls]
        submitted_images == out.images
        processed_images == out.detections
        failed_images == out.failed_images
        missing_images == MissingImages(submitted_images, processed_images)
    IN  IF \E k \in DOMAIN submitted_images : ~is_image_file(submitted_images[k])
        THEN [error |-> "AssertionError:284", missing_images |-> <<>>]
        ELSE IF \E k \in DOMAIN failed_images : ~is_image_file(failed_images[k])
        THEN [error |-> "AssertionError:285", missing_images |-> <<>>]
        ELSE IF ~(Range(failed_images) \subseteq Range(missing_images))
        THEN [error |-> "AssertionError:300", missing_images |-> <<>>]
        ELSE [error |-> "none", missing_images |-> missing_images]


(* ------------------------ building the taskgroups --------------------- *)

Raise(S, e) == [S EXCEPT !.error = e]

\* cell "Enumerate blobs to files": one list file per folder
EnumerateBlobs ==
    /\ file_lists_by_folder = NoAttr
    /\ LET listing(i) == sorted({x \in Items : FolderOf(x) = i})
       IN  /\ \A i \in Folders : \A k \in DOMAIN listing(i) :
                  is_image_file(listing(i)[k])
           /\ file_lists_by_folder' = [i \in Folders |-> ListPath(i)]
           /\ files' = [p \in {ListPath(i) : i \in Folders} |-> listing(p[2])]
    /\ error' = "none"
    /\ UNCHANGED <<chunkVars, unitVars, submit_log, configVars, task_id, folder_chunks, taskgroups,
                   resubmitted_tasks, n_resubmissions, task_id_to_results_file,
                   folder_name_to_combined_output_file, blobs, remote, ghostVars>>

\* cell "Divide images into chunks for each folder"
DivideImages ==
    /\ file_lists_by_folder # NoAttr
    /\ folder_chunks = NoAttr
    /\ LET chunks(i) == divide_files_into_tasks(files[file_lists_by_folder[i]],
                                                n_files_per_task)
           paths == {ChunkPath(i, j) : i \in Folders, j \in 1..MaxLen}
           written == {p \in paths : p[3] \in DOMAIN chunks(p[2])}
       IN  /\ folder_chunks' =
                  [i \in Folders |-> [j \in DOMAIN chunks(i) |-> ChunkPath(i, j)]]
           /\ files' = [p \in written |-> chunks(p[2])[p[3]]] @@ files
    /\ error' = "none"
    /\ UNCHANGED <<chunkVars, unitVars, submit_log, configVars, task_id, file_lists_by_folder, taskgroups,
                   resubmitted_tasks, n_resubmissions, task_id_to_results_file,
                   folder_name_to_combined_output_file, blobs, remote, ghostVars>>

\* the name of the task of chunk j of folder i, and of a resubmission
ChunkTaskName(i, j) == <<"chunk", i, j>>
MissingTaskName(i, id) == <<"missing_images", i, id>>

\* cell "Create taskgroups and tasks, and upload image lists to blob storage"
CreateTaskgroups ==
    /\ folder_chunks # NoAttr
    /\ taskgroups = NoAttr
    /\ LET path(i, j) == folder_chunks[i][j]
           names == {ChunkTaskName(i, j) : i \in Folders, j \in 1..MaxLen}
           made == {nm \in names : nm[3] \in DOMAIN folder_chunks[nm[2]]}
       IN  /\ \A i \in Folders : \A j \in DOMAIN folder_chunks[i] :
                  TaskInitError(files[path(i, j)]) = "none"
           /\ taskgroups' =
                  [i \in Folders |->
                      [j \in DOMAIN folder_chunks[i] |->
                          upload_images_list(Task(ChunkTaskName(i, j), path(i, j)),
                                             path(i, j))]]
           /\ blobs' = [nm \in {path(m[2], m[3]) : m \in made} |-> files[nm]]
           /\ synthesized_from' =
                  [i \in Folders |-> [j \in DOMAIN folder_chunks[i] |-> <<0, 0>>]]
    /\ error' = "none"
    /\ UNCHANGED <<chunkVars, unitVars, submit_log, configVars, task_id, file_lists_by_folder, folder_chunks,
                   resubmitted_tasks, n_resubmissions, task_id_to_results_file,
                   folder_name_to_combined_output_file, files, remote,
                   reconciled, pass_work, pass_log, checked, warnings>>

\* cell "Generate API calls for each task"
GenerateApiCalls ==
    /\ taskgroups # NoAttr
    /\ \E i \in Folders : \E j \in DOMAIN taskgroups[i] :
           taskgroups[i][j].api_request = NoAttr
    /\ taskgroups' =
           [i \in Folders |->
               [j \in DOMAIN taskgroups[i] |->
                   generate_api_request(taskgroups[i][j], read_only_sas_url)]]
    /\ error' = "none"
    /\ UNCHANGED <<chunkVars, unitVars, submit_log, configVars, task_id, file_lists_by_folder, folder_chunks,
                   resubmitted_tasks, n_resubmissions, task_id_to_results_file,
                   folder_name_to_combined_output_file, files, blobs, remote,
                   ghostVars>>

\* the tasks of all taskgroups in iteration order, as positions <<i, j>>
RECURSIVE Positions(_, _)
Positions(tgs, i) ==
    IF i > Len(tgs) THEN <<>>
    ELSE [j \in DOMAIN tgs[i] |-> <<i, j>>] \o Positions(tgs, i + 1)


(* --------------------------- the batch API ---------------------------- *)

\* What the service may publish for a request whose list is l, as
\* [images, detections, failed_images, fn].  fn is the detections file name:
\* "chunk" has the folder name and 'chunk' in it, "missing" the folder name
\* and 'missing' but not 'chunk', "other" neither.  Extra(l) is an image the
\* request did not name.
Extra(l) == CHOOSE x \in Items : x \notin Range(l)

Rest(l) == IF l = <<>> THEN <<>> ELSE Tail(l)

Output(im, det, fl, fn) ==
    [images |-> im, detections |-> det, failed_images |-> fl, fn |-> fn]

\* the submitted list is reported as it is or with one more entry (a repeated
\* or a foreign one); all, all but the first, none of the images are
\* processed, or an image nobody asked for
OutputsDiffering(l) ==
    {Output(im, det, <<>>, "chunk") :
        im \in {l, l \o <<1>>},
        det \in {l, Rest(l), <<>>, l \o <<Extra(l)>>, <<Extra(l)>>}}

\* an image is reported as failed
OutputsFailed(l) == {Output(l, det, <<1>>, "chunk") : det \in {l, <<>>}}

\* an entry of the reported list is no image path
OutputsNotImage(l) == {Output(l \o <<NotImage>>, l, <<>>, "chunk")}

\* the detections file has another name
OutputsNamed(l) == {Output(l, l, <<>>, fn) : fn \in {"missing", "other"}}

Outputs(l) ==
    OutputsDiffering(l) \cup OutputsFailed(l) \cup OutputsNotImage(l)
        \cup OutputsNamed(l)

\* a request the service accepted, still running
RemoteTask(request) ==
    [request |-> request,
     images_requested |-> blobs[request["images_requested_json_sas"]],
     request_status |-> "running",
     images |-> <<>>, detections |-> <<>>, failed_images |-> <<>>,
     fn |-> "NoAttr"]

\* the service finishes a running task and publishes its three output lists
RemoteCompletes(rid) ==
    /\ remote[rid].request_status = "running"
    /\ \E out \in Outputs(remote[rid].images_requested) :
           remote' = [remote EXCEPT ![rid].request_status = "completed",
                                    ![rid].images = out.images,
                                    ![rid].detections = out.detections,
                                    ![rid].failed_images = out.failed_images,
                                    ![rid].fn = out.fn]
    /\ UNCHANGED <<chunkVars, unitVars, submit_log, configVars, scriptVars, ghostVars>>

\* the service gives up on a running task
RemoteFails(rid) ==
    /\ remote[rid].request_status = "running"
    /\ \E st \in {"failed", "problem"} :
           remote' = [remote EXCEPT ![rid].request_status = st]
    /\ UNCHANGED <<chunkVars, unitVars, submit_log, configVars, scriptVars, ghostVars>>

(* ------------------------------ submitting ---------------------------- *)

\* faulty variant: the id is stored before the answer is looked at
submit_id_first(S, pos, answer) ==
    LET task == S.taskgroups[pos[1]][pos[2]]
        rid == Len(S.remote) + 1
    IN  IF task.api_request = NoAttr THEN Raise(S, "AttributeError")
        ELSE IF answer # "ok"
        THEN Raise([S EXCEPT !.taskgroups[pos[1]][pos[2]].id = rid], answer)
        ELSE [S EXCEPT !.taskgroups[pos[1]][pos[2]].id = rid,
                       !.remote = Append(@, RemoteTask(task.api_request))]

\* Task.submit with the service's answer: "ok", or the exception raised.
\* S carries the taskgroups and the remote side through a cell's loop.
submit(S, pos, answer) ==
    LET task == S.taskgroups[pos[1]][pos[2]]
        rid == Len(S.remote) + 1
    IN  IF task.api_request = NoAttr THEN Raise(S, "AttributeError")
        ELSE IF answer # "ok" THEN Raise(S, answer)
        ELSE [S EXCEPT !.taskgroups[pos[1]][pos[2]].id = rid,
                       !.remote = Append(@, RemoteTask(task.api_request))]

\* faulty variant: a response without 'request_id' raises an error of its own
\* class
SubmitAnswer_keyerror(response) ==
    IF ~response.http_ok THEN "HTTPError"
    ELSE IF "error" \in DOMAIN response.json
         THEN "BatchAPISubmissionError:error"
         ELSE IF "request_id" \notin DOMAIN response.json
              THEN "KeyError"
              ELSE "ok"

\* what Task.submit does with the service's response [http_ok, json]:
\* r.raise_for_status(), then the two tests on r.json().  An exception is
\* written as its class, followed after a colon by the test that raised it
\* where the class raises in two places.
SubmitAnswer(response) ==
    IF ~response.http_ok THEN "HTTPError"
    ELSE IF "error" \in DOMAIN response.json
         THEN "BatchAPISubmissionError:error"
         ELSE IF "request_id" \notin DOMAIN response.json
              THEN "BatchAPISubmissionError:request_id"
              ELSE "ok"

\* the argument of the exception raised: response['error'], or the text
\* with the response in it
SubmitMessage(response) ==
    IF ~response.http_ok THEN <<>>
    ELSE IF "error" \in DOMAIN response.json THEN <<response.json.error>>
    ELSE IF "request_id" \notin DOMAIN response.json
         THEN <<"\"request_id\" not in API response: ", response.json>>
         ELSE <<>>

\* the class of an exception
ExceptionClass(e) ==
    IF e \in {"BatchAPISubmissionError:error",
              "BatchAPISubmissionError:request_id"}
    THEN "BatchAPISubmissionError"
    ELSE e

SubmitErrors == {"HTTPError", "BatchAPISubmissionError:error",
                 "BatchAPISubmissionError:request_id"}

\* for taskgroup in taskgroups: for task in taskgroup: task.submit(...)
\* the first `oks` answers are successes, the next one is `answer`
\* one iteration: task.submit(...), noted in the log
SubmitIteration(S, pos, answer) ==
    LET S1 == submit([S EXCEPT !.error = "none"], pos, answer)
    IN  [S1 EXCEPT !.task_id = IF S1.error = "none"
                               THEN S1.taskgroups[pos[1]][pos[2]].id ELSE @,
                   !.log = Append(@, IF S1.error = "none" THEN "returned"
                                                          ELSE S1.error)]

\* faulty variant: a submit that raises does not end the loop
RECURSIVE SubmitLoop_isolated(_, _, _, _)
SubmitLoop_isolated(S, work, oks, answer) ==
    IF work = <<>> THEN S
    ELSE SubmitLoop_isolated(
             SubmitIteration(S, Head(work), IF oks > 0 THEN "ok" ELSE answer),
             Tail(work), oks - 1, answer)

RECURSIVE SubmitLoop(_, _, _, _)
SubmitLoop(S, work, oks, answer) ==
    IF work = <<>> \/ S.error # "none" THEN S
    ELSE SubmitLoop(
             SubmitIteration(S, Head(work), IF oks > 0 THEN "ok" ELSE answer),
             Tail(work), oks - 1, answer)

\* cell "Run the tasks"
RunTasks ==
    /\ taskgroups # NoAttr
    /\ \E oks \in 0..(MaxRemote - Len(remote)), answer \in SubmitErrors :
           LET S == SubmitLoop([taskgroups |-> taskgroups, remote |-> remote,
                                task_id |-> task_id, error |-> "none",
                                log |-> <<>>],
                               Positions(taskgroups, 1), oks, answer)
           IN  /\ taskgroups' = S.taskgroups
               /\ task_id' = S.task_id
               /\ remote' = S.remote
               /\ error' = S.error
               /\ submit_log' = IF submit_log.kept
                                 THEN [kept |-> TRUE,
                                       work |-> Positions(taskgroups, 1),
                                       outcomes |-> S.log]
                                 ELSE submit_log
    /\ UNCHANGED <<chunkVars, unitVars, configVars, file_lists_by_folder, folder_chunks,
                   resubmitted_tasks, n_resubmissions, task_id_to_results_file,
                   folder_name_to_combined_output_file, files, blobs, ghostVars>>

\* the id check of cell "Resubmit tasks for failed shards": a task without an
\* id gets the id of the request the operator posted by hand for it; the
\* operator's list of ids covers the first `given` tasks
manual_id(S, pos) ==
    LET task == S.taskgroups[pos[1]][pos[2]]
        rid == Len(S.remote) + 1
    IN  IF task.id # NoId THEN S
        ELSE [S EXCEPT !.taskgroups[pos[1]][pos[2]].id = rid,
                       !.remote = Append(@, RemoteTask(task.api_request))]

RECURSIVE ManualIdLoop(_, _, _)
ManualIdLoop(S, work, given) ==
    IF work = <<>> THEN S
    ELSE IF given = 0 THEN Raise(S, "IndexError")
    ELSE ManualIdLoop(manual_id(S, Head(work)), Tail(work), given - 1)

ResubmitManually ==
    /\ taskgroups # NoAttr
    /\ \E given \in 1..Len(Positions(taskgroups, 1)) :
           LET work == Positions(taskgroups, 1)
               S == ManualIdLoop([taskgroups |-> taskgroups, remote |-> remote,
                                  error |-> "none"], work, given)
           IN  /\ \A k \in 1..given :
                      taskgroups[work[k][1]][work[k][2]].api_request # NoAttr
               /\ Len(S.remote) > Len(remote)
               /\ Len(S.remote) <= MaxRemote
               /\ taskgroups' = S.taskgroups
               /\ remote' = S.remote
               /\ error' = S.error
    /\ UNCHANGED <<chunkVars, unitVars, submit_log, configVars, task_id, file_lists_by_folder, folder_chunks,
                   resubmitted_tasks, n_resubmissions, task_id_to_results_file,
                   folder_name_to_combined_output_file, files, blobs, ghostVars>>


(* ------------------------- polling, reconciling ----------------------- *)

\* faulty variant: a poll that fails at the HTTP layer forgets the last status
check_status_forgetful(S, pos, http_ok) ==
    LET task == S.taskgroups[pos[1]][pos[2]]
    IN  IF task.id = NoId THEN Raise(S, "AttributeError")
        ELSE IF ~http_ok
        THEN Raise([S EXCEPT !.taskgroups[pos[1]][pos[2]].response = NoResponse],
                   "HTTPError")
        ELSE [S EXCEPT !.taskgroups[pos[1]][pos[2]].response = StatusOf(task.id)]

\* Task.check_status; the HTTP request succeeds or raises
check_status(S, pos, http_ok) ==
    LET task == S.taskgroups[pos[1]][pos[2]]
    IN  IF task.id = NoId THEN Raise(S, "AttributeError")
        ELSE IF ~http_ok THEN Raise(S, "HTTPError")
        ELSE [S EXCEPT !.taskgroups[pos[1]][pos[2]].response = StatusOf(task.id)]

\* a cell's loop over `work`: `body` for each position in turn until one
\* raises; the HTTP request of iteration `fail_at` (0: none) fails
RECURSIVE StatusLoop(_, _, _, _)
StatusLoop(S, work, k, fail_at) ==
    IF k > Len(work) \/ S.error # "none" THEN S
    ELSE StatusLoop(check_status(S, work[k], k # fail_at), work, k + 1, fail_at)

\* cell "Status check"
StatusCheck ==
    /\ taskgroups # NoAttr
    /\ \E fail_at \in 0..Len(Positions(taskgroups, 1)) :
           LET S == StatusLoop([taskgroups |-> taskgroups, error |-> "none"],
                               Positions(taskgroups, 1), 1, fail_at)
           IN  /\ taskgroups' = S.taskgroups
               /\ error' = S.error
    /\ UNCHANGED <<chunkVars, unitVars, submit_log, configVars, task_id, file_lists_by_folder, folder_chunks,
                   resubmitted_tasks, n_resubmissions, task_id_to_results_file,
                   folder_name_to_combined_output_file, files, blobs, remote,
                   ghostVars>>

\* faulty variant: a task with exactly the tolerated number missing is accepted
Tolerable_inclusive(num_missing_imgs) ==
    num_missing_imgs <= max_tolerable_missing_images

\* faulty variant: the comparison is the wrong way round
Tolerable_reversed(num_missing_imgs) ==
    num_missing_imgs >= max_tolerable_missing_images

\* if num_missing_imgs < max_tolerable_missing_images: continue
Tolerable(num_missing_imgs) == num_missing_imgs < max_tolerable_missing_images

\* faulty variant: the new task takes the place of the task it was made from
Resubmit_in_place(S, pos, missing_images_fn) ==
    LET i == pos[1]
        task == S.taskgroups[i][pos[2]]
        task_name == MissingTaskName(i, task.id)
        new_task == generate_api_request(
                        upload_images_list(Task(task_name, missing_images_fn),
                                           task_name),
                        read_only_sas_url)
    IN  [S EXCEPT !.taskgroups[i][pos[2]] = new_task,
                  !.blobs = WriteFile(@, task_name, S.files[missing_images_fn]),
                  !.n_resubmissions = @ + 1]

\* the rest of the loop body of the reconciliation cell, after the missing
\* list was written: a new task for the missing images, appended to the group
Resubmit(S, pos, missing_images_fn) ==
    LET i == pos[1]
        task == S.taskgroups[i][pos[2]]
        task_name == MissingTaskName(i, task.id)
        blob_name == task_name
        new_task == generate_api_request(
                        upload_images_list(Task(task_name, missing_images_fn),
                                           blob_name),
                        read_only_sas_url)
    IN  IF TaskInitError(S.files[missing_images_fn]) # "none"
        THEN Raise(S, TaskInitError(S.files[missing_images_fn]))
        ELSE LET appended ==
                     [S EXCEPT !.taskgroups[i] = Append(@, new_task),
                               !.blobs = WriteFile(@, blob_name,
                                                   S.files[missing_images_fn]),
                               !.resubmitted_tasks =
                                   Append(@, <<i, Len(S.taskgroups[i]) + 1>>),
                               !.synthesized_from[i] =
                                   Append(@, <<pos[2], task.id>>)]
             IN  \* print(f'... {task_id}:') reads the global of cell "Run the
                 \* tasks"
                 IF S.task_id = NoId THEN Raise(appended, "NameError")
                 ELSE [appended EXCEPT !.n_resubmissions = @ + 1]

\* faulty variant: the missing list is written only when a resubmission is decided
RecordMissing_late(S, pos, rid, missing_imgs) ==
    LET missing_images_fn == MissingPath(rid)
        S1 == [S EXCEPT !.files = WriteFile(@, missing_images_fn, missing_imgs)]
    IN  IF Tolerable(Len(missing_imgs)) THEN S
        ELSE Resubmit([S1 EXCEPT !.warnings = @ \cup {<<"task", rid, Len(missing_imgs)>>}],
                      pos, missing_images_fn)

\* the missing list of a task is written, then the decision is taken
RecordMissing(S, pos, rid, missing_imgs) ==
    LET missing_images_fn == MissingPath(rid)
        S1 == [S EXCEPT !.files = WriteFile(@, missing_images_fn, missing_imgs)]
    IN  IF Tolerable(Len(missing_imgs)) THEN S1
        ELSE Resubmit([S1 EXCEPT !.warnings = @ \cup {<<"task", rid, Len(missing_imgs)>>}],
                      pos, missing_images_fn)

\* the loop body of cell "Look for failed shards or missing images"
ReconcileTask(S, pos, http_ok) ==
    LET S1 == check_status(S, pos, http_ok)
        task == S1.taskgroups[pos[1]][pos[2]]
        response == task.response
    IN  IF S1.error # "none" THEN S1
        ELSE IF response.output_file_urls = NoId THEN Raise(S1, "KeyError")
        ELSE IF remote[response.output_file_urls].fn # "chunk"
        THEN Raise(S1, "AssertionError:fn")
        ELSE LET got == get_missing_images(task)
                 rid == response.output_file_urls
             IN  IF got.error # "none" THEN Raise(S1, got.error)
                 ELSE RecordMissing([S1 EXCEPT !.reconciled = @ \cup {rid}],
                                    pos, rid, got.missing_images)

\* one iteration, and what it ended with
ReconcileIteration(S, pos, http_ok) ==
    LET S1 == ReconcileTask(S, pos, http_ok)
        task == S1.taskgroups[pos[1]][pos[2]]
        entry == [pos |-> pos, rid |-> task.id, outcome |-> S1.error,
                  missing |-> IF S1.error = "none"
                              THEN get_missing_images(task).missing_images
                              ELSE <<>>]
    IN  [S1 EXCEPT !.pass_log = Append(@, entry)]

RECURSIVE ReconcileLoop(_, _, _, _)
ReconcileLoop(S, work, k, fail_at) ==
    IF k > Len(work) \/ S.error # "none" THEN S
    ELSE ReconcileLoop(ReconcileIteration(S, work[k], k # fail_at),
                       work, k + 1, fail_at)

\* cell "Look for failed shards or missing images, start new tasks if
\* necessary": tasks = list(taskgroup) is the group as the pass finds it
Reconcile ==
    /\ taskgroups # NoAttr
    /\ \E fail_at \in 0..Len(Positions(taskgroups, 1)) :
           LET S == ReconcileLoop(
                        [taskgroups |-> taskgroups, files |-> files,
                         blobs |-> blobs, resubmitted_tasks |-> <<>>,
                         n_resubmissions |-> 0, error |-> "none",
                         task_id |-> task_id,
                         synthesized_from |-> synthesized_from,
                         reconciled |-> reconciled, pass_log |-> <<>>,
                         warnings |-> {}],
                        Positions(taskgroups, 1), 1, fail_at)
           IN  /\ \A i \in Folders : Len(S.taskgroups[i]) <= MaxTasks
               /\ taskgroups' = S.taskgroups
               /\ files' = S.files
               /\ blobs' = S.blobs
               /\ resubmitted_tasks' = S.resubmitted_tasks
               /\ n_resubmissions' = S.n_resubmissions
               /\ error' = S.error
               /\ synthesized_from' = S.synthesized_from
               /\ reconciled' = S.reconciled
               /\ pass_work' = Positions(taskgroups, 1)
               /\ pass_log' = S.pass_log
               /\ warnings' = S.warnings
    /\ UNCHANGED <<chunkVars, unitVars, submit_log, configVars, task_id, file_lists_by_folder, folder_chunks,
                   task_id_to_results_file, folder_name_to_combined_output_file,
                   remote, checked>>


(* --------------------------- pulling results -------------------------- *)

\* the loop body of cell "Pull results"
PullTask(S, pos, http_ok) ==
    LET S1 == check_status(S, pos, http_ok)
        task == S1.taskgroups[pos[1]][pos[2]]
        rid == task.response.output_file_urls
        output_file == RawPath(rid)
    IN  IF S1.error # "none" THEN S1
        ELSE IF rid = NoId THEN Raise(S1, "KeyError")
        ELSE IF remote[rid].fn \notin {"chunk", "missing"}
        THEN Raise(S1, "AssertionError:fn")
        ELSE [S1 EXCEPT !.files = WriteFile(@, output_file, remote[rid].detections),
                        !.task_id_to_results_file = (task.id :> output_file) @@ @]

RECURSIVE PullLoop(_, _, _, _)
PullLoop(S, work, k, fail_at) ==
    IF k > Len(work) \/ S.error # "none" THEN S
    ELSE PullLoop(PullTask(S, work[k], k # fail_at), work, k + 1, fail_at)

\* cell "Pull results"
PullResults ==
    /\ taskgroups # NoAttr
    /\ \E fail_at \in 0..Len(Positions(taskgroups, 1)) :
           LET S == PullLoop([taskgroups |-> taskgroups, files |-> files,
                              task_id_to_results_file |-> <<>>, error |-> "none"],
                             Positions(taskgroups, 1), 1, fail_at)
           IN  /\ taskgroups' = S.taskgroups
               /\ files' = S.files
               /\ task_id_to_results_file' = S.task_id_to_results_file
               /\ error' = S.error
    /\ UNCHANGED <<chunkVars, unitVars, submit_log, configVars, task_id, file_lists_by_folder, folder_chunks,
                   resubmitted_tasks, n_resubmissions,
                   folder_name_to_combined_output_file, blobs, remote, ghostVars>>

(* -------------------------- combining results ------------------------- *)

\* combine_api_outputs.combine_api_output_files: the images of all the files
combine_api_output_files(contents) == Flatten(contents)

\* path_utils.find_image_strings: the strings that are image file names
find_image_strings(strings) == {x \in strings : is_image_file(x)}

\* faulty variant: images in the results that were not requested are let through
CrossCheck_no_extra(requested_images_set, result_images_set) ==
    LET missing_images == find_image_strings(requested_images_set \ result_images_set)
    IN  IF ~(Cardinality(missing_images) < max_tolerable_missing_images)
        THEN "AssertionError:459"
        ELSE "none"

\* faulty variant: exactly the tolerated number of missing images passes
CrossCheck_inclusive(requested_images_set, result_images_set) ==
    LET missing_images == find_image_strings(requested_images_set \ result_images_set)
        extra_images == result_images_set \ requested_images_set
    IN  IF ~(Cardinality(missing_images) <= max_tolerable_missing_images)
        THEN "AssertionError:459"
        ELSE IF Cardinality(extra_images) # 0 THEN "AssertionError:464"
        ELSE "none"

\* the cross-check of a combined output against the folder's list: the
\* assertion that fails, or "none"
CrossCheck(requested_images_set, result_images_set) ==
    LET missing_files == requested_images_set \ result_images_set
        missing_images == find_image_strings(missing_files)
        extra_images == result_images_set \ requested_images_set
    IN  IF ~(Cardinality(missing_images) < max_tolerable_missing_images)
        THEN "AssertionError:459"
        ELSE IF Cardinality(extra_images) # 0 THEN "AssertionError:464"
        ELSE "none"

\* the results files of a taskgroup's tasks, or the exception of the lookup
RECURSIVE ResultsFiles(_, _)
ResultsFiles(S, taskgroup) ==
    IF taskgroup = <<>> THEN [error |-> "none", results_files |-> <<>>]
    ELSE LET task == Head(taskgroup)
             rest == ResultsFiles(S, Tail(taskgroup))
         IN  IF task.id = NoId
             THEN [error |-> "AttributeError", results_files |-> <<>>]
             ELSE IF task.id \notin DOMAIN task_id_to_results_file
             THEN [error |-> "KeyError", results_files |-> <<>>]
             ELSE IF rest.error # "none" THEN rest
             ELSE [error |-> "none",
                   results_files |-> <<task_id_to_results_file[task.id]>>
                                     \o rest.results_files]

\* the loop body of cell "Combine results from task groups into final
\* output files", for taskgroup i
CombineTaskgroup(S, i) ==
    LET found == ResultsFiles(S, taskgroups[i])
        results_files == found.results_files
        combined_api_output_file == CombinedPath(i)
        combined == combine_api_output_files(
                        [k \in DOMAIN results_files |-> S.files[results_files[k]]])
        requested_images_set == Range(S.files[file_lists_by_folder[i]])
        result_images_set == Range(combined)
        n_missing == Cardinality(find_image_strings(
                         requested_images_set \ result_images_set))
        outcome == CrossCheck(requested_images_set, result_images_set)
        S1 == [S EXCEPT !.files = WriteFile(@, combined_api_output_file, combined),
                        !.folder_name_to_combined_output_file =
                            (i :> combined_api_output_file) @@ @,
                        !.warnings = IF n_missing > 0
                                     THEN @ \cup {<<"folder", i, n_missing>>}
                                     ELSE @,
                        !.checked = (i :> outcome) @@ @]
    IN  IF found.error # "none" THEN Raise(S, found.error)
        ELSE Raise(S1, outcome)

\* faulty variant: a taskgroup that fails does not keep the cell from
\* combining the taskgroups after it
RECURSIVE CombineLoop_isolated(_, _)
CombineLoop_isolated(S, i) ==
    IF i > Len(folder_names) THEN S
    ELSE LET S1 == CombineTaskgroup([S EXCEPT !.error = "none"], i)
         IN  CombineLoop_isolated(
                 IF S.error # "none" THEN [S1 EXCEPT !.error = S.error] ELSE S1,
                 i + 1)

\* for i_taskgroup, taskgroup in enumerate(taskgroups): ...; an exception
\* ends the loop
RECURSIVE CombineLoop(_, _)
CombineLoop(S, i) ==
    IF i > Len(folder_names) \/ S.error # "none" THEN S
    ELSE CombineLoop(CombineTaskgroup(S, i), i + 1)

\* cell "Combine results from task groups into final output files"
CombineResults ==
    /\ taskgroups # NoAttr
    /\ LET S == CombineLoop([files |-> files,
                             folder_name_to_combined_output_file |-> <<>>,
                             warnings |-> {}, checked |-> <<>>,
                             error |-> "none"], 1)
       IN  /\ files' = S.files
           /\ folder_name_to_combined_output_file' =
                  S.folder_name_to_combined_output_file
           /\ warnings' = S.warnings
           /\ checked' = S.checked
           /\ error' = S.error
    /\ UNCHANGED <<chunkVars, unitVars, submit_log, configVars, task_id, file_lists_by_folder, folder_chunks,
                   taskgroups, resubmitted_tasks, n_resubmissions,
                   task_id_to_results_file, blobs, remote, synthesized_from,
                   reconciled, pass_work, pass_log>>

(* ------------------------ one Task, call by call ---------------------- *)

\* the record of the last call made on the Task: the method, its arguments,
\* the Task before the call, the exception raised or "none", the value
\* returned
NoCall ==
    [method |-> "none", args |-> <<>>, before |-> Task0, raised |-> "none",
     message |-> <<>>, returned |-> <<>>]

\* no Task object yet; n_more is the number of image paths the list file
\* holds after the entries that are written out
NoUnit == [made |-> FALSE, task |-> Task0, n_more |-> 0, called |-> NoCall]

\* the record of a call: its arguments, the Task before it, the exception it
\* raised with its message (when the message matters), the value returned
Called(method, args, raised, returned) ==
    [method |-> method, args |-> args, before |-> unit.task,
     raised |-> raised, message |-> <<>>, returned |-> returned]

\* the list file of the Task, the URL that serves the same list, the name
\* of the blob the list is uploaded to
UnitList == <<"unit", 0, 0>>
UnitUrl == <<"unit", 1, 0>>
UnitBlob == <<"unit", 2, 0>>

\* the variables the calls on the one Task leave alone
restVars == <<chunkVars, submit_log, configVars, task_id, file_lists_by_folder,
              folder_chunks, taskgroups, resubmitted_tasks, n_resubmissions,
              task_id_to_results_file, folder_name_to_combined_output_file,
              files, error, ghostVars>>

\* task = Task(name, images_list_path, local, validate); the request for a
\* list behind a URL succeeds or not
Construct(name, images_list_path, local, validate, fetched) ==
    /\ LET images_list == IF local THEN files[images_list_path]
                                   ELSE blobs[images_list_path]
           args == [name |-> name, local |-> local, validate |-> validate]
           raised == IF ~validate THEN "none"
                     ELSE IF ~local /\ ~fetched THEN "ConnectionError"
                     ELSE ValidateImagesList(images_list, unit.n_more)
       IN  unit' = IF raised = "none"
                   THEN [unit EXCEPT
                            !.made = TRUE,
                            !.task = TaskInit(name, images_list_path, local),
                            !.called = Called("__init__", args, "none", <<>>)]
                   ELSE [unit EXCEPT
                            !.called = Called("__init__", args, raised, <<>>)]
    /\ UNCHANGED <<restVars, naming, blobs, remote>>

\* task.upload_images_list(..., blob_name=UnitBlob)
Upload ==
    /\ unit.made
    /\ IF unit.task.local_images_list_path = NoAttr
       THEN /\ unit' = [unit EXCEPT !.called =
                           Called("upload_images_list", <<>>, "AttributeError", <<>>)]
            /\ UNCHANGED blobs
       ELSE /\ unit' = [unit EXCEPT
                           !.task = upload_images_list(@, UnitBlob),
                           !.called = Called("upload_images_list", <<>>, "none", <<>>)]
            /\ blobs' = WriteFile(blobs, UnitBlob,
                                  files[unit.task.local_images_list_path])
    /\ UNCHANGED <<restVars, naming, remote>>

\* task.generate_api_request(caller, input_container_url, image_path_prefix,
\* **kwargs)
GenerateRequest(input_container_url, image_path_prefix, kwargs) ==
    /\ unit.made
    /\ LET args == [input_container_url |-> input_container_url,
                    image_path_prefix |-> image_path_prefix,
                    kwargs |-> kwargs]
           task == generate_api_request_kwargs(unit.task, "caller",
                       input_container_url, image_path_prefix, kwargs)
       IN  unit' = IF unit.task.remote_images_list_url = NoAttr
                   THEN [unit EXCEPT !.called =
                            Called("generate_api_request", args,
                                   "AttributeError", <<>>)]
                   ELSE [unit EXCEPT
                            !.task = task,
                            !.called = Called("generate_api_request", args,
                                              "none", task.api_request)]
    /\ UNCHANGED <<restVars, naming, blobs, remote>>

\* requests the service has room for in the specifications of the one Task
MaxUnitRemote == 1

\* task.submit(request_endpoint_url), with the service's answer
Submit(response) ==
    /\ unit.made
    /\ SubmitAnswer(response) = "ok" => Len(remote) < MaxUnitRemote
    /\ LET S == submit([taskgroups |-> <<<<unit.task>>>>, remote |-> remote,
                        error |-> "none"], <<1, 1>>, SubmitAnswer(response))
           task == S.taskgroups[1][1]
           call == Called("submit", response, S.error,
                          IF S.error = "none" THEN task.id ELSE NoId)
       IN  /\ unit' = [unit EXCEPT
                          !.task = task,
                          !.called =
                              IF S.error \in {"none", "AttributeError"} THEN call
                              ELSE [call EXCEPT
                                       !.message = SubmitMessage(response)]]
           /\ remote' = S.remote
    /\ UNCHANGED <<restVars, naming, blobs>>

\* cell "Manually define task groups if we ran the tasks manually":
\* task.id = taskgroup_ids[i][j]
AssignId(rid) ==
    /\ unit.made
    /\ unit' = [unit EXCEPT !.task.id = rid,
                            !.called = Called("task.id =", rid, "none", <<>>)]
    /\ UNCHANGED <<restVars, naming, blobs, remote>>

\* task.get_missing_images(); self.response is there only after a
\* check_status that returned
GetMissingImages ==
    /\ unit.made
    /\ LET got == IF unit.task.response = NoResponse
                  THEN [error |-> "AttributeError", missing_images |-> <<>>]
                  ELSE get_missing_images(unit.task)
       IN  unit' = [unit EXCEPT !.called =
                       Called("get_missing_images", <<>>, got.error,
                              got.missing_images)]
    /\ UNCHANGED <<restVars, naming, blobs, remote>>

\* task.check_status(task_status_endpoint_url); the service answers for the
\* ids it knows
CheckStatus(http_ok) ==
    /\ unit.made
    /\ http_ok => unit.task.id \in DOMAIN remote
    /\ LET S == check_status([taskgroups |-> <<<<unit.task>>>>, error |-> "none"],
                             <<1, 1>>, http_ok)
           task == S.taskgroups[1][1]
       IN  unit' = [unit EXCEPT
                       !.task = task,
                       !.called = Called("check_status", http_ok, S.error,
                                         IF S.error = "none" THEN task.response
                                                             ELSE NoResponse)]
    /\ UNCHANGED <<restVars, naming, blobs, remote>>

\* str(task_id), and the URL of the 'images' list of a completed request
IdName(rid) == <<<<"1", "2", "3", "4", "5", "6", "7", "8", "9">>[rid]>>
ImagesUrl(rid) == <<"images", rid, 0>>

\* task = Task.from_task_id(task_id, task_status_endpoint_url): the status
\* is fetched, the Task is made with the 'images' URL of the response
\* (local=False, validated), then id and response are set.  The list behind
\* that URL is what the service published.
FromTaskId(rid, http_ok) ==
    /\ LET response == StatusOf(rid)
           images_list == remote[rid].images
           raised == IF ~http_ok THEN "HTTPError"
                     ELSE IF response.request_status # "completed" THEN "KeyError"
                     ELSE ValidateImagesList(images_list, 0)
           task == [TaskInit(IdName(rid), ImagesUrl(rid), FALSE)
                       EXCEPT !.id = rid, !.response = response]
       IN  /\ unit' = IF raised = "none"
                      THEN [unit EXCEPT
                               !.made = TRUE,
                               !.task = task,
                               !.called = Called("from_task_id", rid, "none", <<>>)]
                      ELSE [unit EXCEPT
                               !.called = Called("from_task_id", rid, raised, <<>>)]
           /\ blobs' = IF raised = "none"
                       THEN WriteFile(blobs, ImagesUrl(rid), images_list)
                       ELSE blobs
    /\ UNCHANGED <<restVars, naming, remote>>

\* one call clean_request_name(...): of the name, then of the result, then
\* of the name again
CleanRequestName ==
    /\ Len(naming.calls) < 3
    /\ naming' = [naming EXCEPT !.calls =
                     Append(@, CleanName(IF Len(@) = 1 THEN @[1] ELSE naming.x))]
    /\ UNCHANGED <<restVars, unit, blobs, remote>>

(* ---------------------------- specification --------------------------- *)

Init ==
    /\ arg_l = <<>> /\ arg_n = 1 /\ ret_chunks = NoChunks
    /\ n_files_per_task \in 1..MaxPerTask
    /\ max_tolerable_missing_images \in 1..MaxTolerance
    /\ file_lists_by_folder = NoAttr
    /\ folder_chunks = NoAttr
    /\ taskgroups = NoAttr
    /\ resubmitted_tasks = <<>>
    /\ n_resubmissions = 0
    /\ task_id = NoId
    /\ task_id_to_results_file = <<>>
    /\ folder_name_to_combined_output_file = <<>>
    /\ files = <<>>
    /\ blobs = <<>>
    /\ remote = <<>>
    /\ error = "none"
    /\ synthesized_from = NoAttr
    /\ reconciled = {}
    /\ pass_work = <<>>
    /\ pass_log = <<>>
    /\ checked = <<>>
    /\ warnings = {}
    /\ submit_log = NoLog
    /\ naming = NoNaming
    /\ unit = NoUnit

\* the cells up to the API calls, run once each from top to bottom
Building ==
    \/ EnumerateBlobs
    \/ DivideImages
    \/ CreateTaskgroups
    \/ GenerateApiCalls

Remote ==
    \/ \E rid \in DOMAIN remote : RemoteCompletes(rid)
    \/ \E rid \in DOMAIN remote : RemoteFails(rid)

\* Submission and reconciliation.  The cells left out here (status check,
\* pull, combine) write only task.response, which the reconciliation cell
\* fetches again before it reads it, and variables that no cell of this
\* specification reads.
Next ==
    \/ Building
    \/ RunTasks
    \/ ResubmitManually
    \/ Reconcile
    \/ Remote

Spec == Init /\ [][Next]_vars

\* Submission and aggregation.  The reconciliation cell is left out here: the
\* cross-check of a combined output reads the outputs of the tasks that have
\* an id and the folder's list, whoever made the tasks.
NextAgg ==
    \/ Building
    \/ RunTasks
    \/ PullResults
    \/ CombineResults
    \/ Remote

AggSpec == Init /\ [][NextAgg]_vars

\* Building and submission, with the log of the submits kept.
InitSubmit ==
    /\ n_files_per_task \in 1..MaxPerTask
    /\ max_tolerable_missing_images \in 1..MaxTolerance
    /\ arg_l = <<>>
    /\ arg_n = 1
    /\ ret_chunks = NoChunks
    /\ file_lists_by_folder = NoAttr
    /\ folder_chunks = NoAttr
    /\ taskgroups = NoAttr
    /\ resubmitted_tasks = <<>>
    /\ n_resubmissions = 0
    /\ task_id = NoId
    /\ task_id_to_results_file = <<>>
    /\ folder_name_to_combined_output_file = <<>>
    /\ files = <<>>
    /\ blobs = <<>>
    /\ remote = <<>>
    /\ error = "none"
    /\ synthesized_from = NoAttr
    /\ reconciled = {}
    /\ pass_work = <<>>
    /\ pass_log = <<>>
    /\ checked = <<>>
    /\ warnings = {}
    /\ submit_log = [kept |-> TRUE, work |-> <<>>, outcomes |-> <<>>]
    /\ naming = NoNaming
    /\ unit = NoUnit

NextSubmit ==
    \/ Building
    \/ RunTasks
    \/ ResubmitManually

SubmitSpec == InitSubmit /\ [][NextSubmit]_vars

\* one call divide_chunks(arg_l, arg_n)
DivideChunks ==
    /\ ret_chunks = NoChunks
    /\ ret_chunks' = IF arg_n = 0
                     THEN [NoChunks EXCEPT !.error = "ZeroDivisionError"]
                     ELSE [NoChunks EXCEPT
                              !.returned = TRUE,
                              !.chunks = divide_chunks(arg_l, arg_n)]
    /\ UNCHANGED <<arg_l, arg_n, unitVars, submit_log, configVars, scriptVars, remote,
                   ghostVars>>

InitChunk ==
    /\ arg_l \in SeqsUpTo(Items, MaxLen)
    /\ arg_n \in 1..MaxChunk
    /\ ret_chunks = NoChunks
    /\ n_files_per_task = 1
    /\ max_tolerable_missing_images = 1
    /\ file_lists_by_folder = NoAttr
    /\ folder_chunks = NoAttr
    /\ taskgroups = NoAttr
    /\ resubmitted_tasks = <<>>
    /\ n_resubmissions = 0
    /\ task_id = NoId
    /\ task_id_to_results_file = <<>>
    /\ folder_name_to_combined_output_file = <<>>
    /\ files = <<>>
    /\ blobs = <<>>
    /\ remote = <<>>
    /\ error = "none"
    /\ synthesized_from = NoAttr
    /\ reconciled = {}
    /\ pass_work = <<>>
    /\ pass_log = <<>>
    /\ checked = <<>>
    /\ warnings = {}
    /\ submit_log = NoLog
    /\ naming = NoNaming
    /\ unit = NoUnit

NextChunk == DivideChunks

ChunkSpec == InitChunk /\ [][NextChunk]_vars

\* divide_chunks alone, for chunk sizes of either sign and zero
InitChunkSize ==
    /\ arg_l \in SeqsUpTo(Items, MaxLen)
    /\ arg_n \in (0 - MaxChunk)..MaxChunk
    /\ ret_chunks = NoChunks
    /\ n_files_per_task = 1
    /\ max_tolerable_missing_images = 1
    /\ file_lists_by_folder = NoAttr
    /\ folder_chunks = NoAttr
    /\ taskgroups = NoAttr
    /\ resubmitted_tasks = <<>>
    /\ n_resubmissions = 0
    /\ task_id = NoId
    /\ task_id_to_results_file = <<>>
    /\ folder_name_to_combined_output_file = <<>>
    /\ files = <<>>
    /\ blobs = <<>>
    /\ remote = <<>>
    /\ error = "none"
    /\ synthesized_from = NoAttr
    /\ reconciled = {}
    /\ pass_work = <<>>
    /\ pass_log = <<>>
    /\ checked = <<>>
    /\ warnings = {}
    /\ submit_log = NoLog
    /\ naming = NoNaming
    /\ unit = NoUnit

ChunkSizeSpec == InitChunkSize /\ [][NextChunk]_vars

\* The specifications of the one Task and of clean_request_name leave the
\* driver script where it starts.
Idle ==
    /\ arg_l = <<>>
    /\ arg_n = 1
    /\ ret_chunks = NoChunks
    /\ n_files_per_task = 1
    /\ max_tolerable_missing_images = 1
    /\ file_lists_by_folder = NoAttr
    /\ folder_chunks = NoAttr
    /\ taskgroups = NoAttr
    /\ resubmitted_tasks = <<>>
    /\ n_resubmissions = 0
    /\ task_id = NoId
    /\ task_id_to_results_file = <<>>
    /\ folder_name_to_combined_output_file = <<>>
    /\ error = "none"
    /\ synthesized_from = NoAttr
    /\ reconciled = {}
    /\ pass_work = <<>>
    /\ pass_log = <<>>
    /\ checked = <<>>
    /\ warnings = {}
    /\ submit_log = NoLog

\* request names: up to MaxAffix characters, a run of one character that
\* reaches the limit or not, up to MaxAffix characters
NameChars == {"a", "_", ".", "/"}

Fill(c, n) == [k \in 1..n |-> c]

FillCounts == {0} \cup {REQUEST_NAME_CHAR_LIMIT - k : k \in 0..MaxAffix}

NameInputs ==
    {pre \o Fill(c, n) \o suf :
        pre \in SeqsUpTo(NameChars, MaxAffix), c \in {"a", "."},
        n \in FillCounts, suf \in SeqsUpTo(NameChars, MaxAffix)}

\* clean_request_name alone, and a Task made under the name or under a
\* result
InitName ==
    /\ Idle
    /\ naming \in {[x |-> x, calls |-> <<>>] : x \in NameInputs}
    /\ files = (UnitList :> <<1>>)
    /\ blobs = <<>>
    /\ remote = <<>>
    /\ unit = NoUnit

NextName ==
    \/ CleanRequestName
    \/ \E name \in {naming.x} \cup Range(naming.calls) :
           Construct(name, UnitList, TRUE, FALSE, TRUE)

NameSpec == InitName /\ [][NextName]_vars

\* what the service may answer to a submission: an HTTP error, the id of
\* the new request, an error message (with or without an id), neither
ServerMessages == {"too many images", "bad container"}

SubmitResponses(rid) ==
    {[http_ok |-> FALSE, json |-> NoKwargs],
     [http_ok |-> TRUE, json |-> ("request_id" :> rid)],
     [http_ok |-> TRUE, json |-> NoKwargs],
     [http_ok |-> TRUE, json |-> ("status" :> "accepted")]}
    \cup {[http_ok |-> TRUE, json |-> ("error" :> m)] : m \in ServerMessages}
    \cup {[http_ok |-> TRUE, json |-> ("error" :> m @@ "request_id" :> rid)] :
              m \in ServerMessages}

\* the names, the list files and the calls the one Task is tried with
UnitNames == {<<"a", "_", "1">>, <<"a", ".", "1">>}

UnitContents == SeqsUpTo({1, NotImage}, MaxUnitLen)

UnitPaddings == {0} \cup {MAX_FILES_PER_API_TASK - k : k \in 0..MaxUnitLen}

RequestCalls ==
    {[url |-> "None", prefix |-> "None", kwargs |-> NoKwargs],
     [url |-> read_only_sas_url, prefix |-> "None", kwargs |-> NoKwargs],
     [url |-> read_only_sas_url, prefix |-> "prefix",
      kwargs |-> ("model_version" :> "4_prelim")],
     [url |-> read_only_sas_url, prefix |-> "None",
      kwargs |-> ("use_url" :> TRUE)],
     [url |-> "None", prefix |-> "None",
      kwargs |-> ("input_container_sas" :> "other_sas_url")],
     [url |-> "None", prefix |-> "None",
      kwargs |-> ("request_name" :> <<"x">>)]}

\* Task.__init__ alone, on list files of all lengths around the limit
InitConstruct ==
    /\ Idle
    /\ naming = NoNaming
    /\ \E images_list \in UnitContents :
           /\ files = (UnitList :> images_list)
           /\ blobs = (UnitUrl :> images_list)
    /\ remote = <<>>
    /\ unit \in {[NoUnit EXCEPT !.n_more = m] : m \in UnitPaddings}

NextConstruct ==
    \E name \in UnitNames, local \in BOOLEAN, validate \in BOOLEAN,
       fetched \in BOOLEAN :
        Construct(name, IF local THEN UnitList ELSE UnitUrl, local, validate,
                  fetched)

ConstructSpec == InitConstruct /\ [][NextConstruct]_vars

\* one Task from its construction to its submission
InitTask ==
    /\ Idle
    /\ naming = NoNaming
    /\ files = (UnitList :> <<1, 2>>)
    /\ blobs = (UnitUrl :> <<1, 2>>)
    /\ remote = <<>>
    /\ unit = NoUnit

NextTask ==
    \/ \E name \in UnitNames, local \in BOOLEAN :
           Construct(name, IF local THEN UnitList ELSE UnitUrl, local, TRUE, TRUE)
    \/ Upload
    \/ \E c \in RequestCalls : GenerateRequest(c.url, c.prefix, c.kwargs)
    \/ \E response \in SubmitResponses(Len(remote) + 1) : Submit(response)
    \/ \E rid \in 1..MaxUnitRemote : AssignId(rid)

TaskSpec == InitTask /\ [][NextTask]_vars

\* one Task whose request is ready, submitted and polled while the service
\* works on it
InitPoll ==
    /\ Idle
    /\ naming = NoNaming
    /\ files = (UnitList :> <<1, 2>>)
    /\ blobs = (UnitBlob :> <<1, 2>>)
    /\ remote = <<>>
    /\ unit = [NoUnit EXCEPT
                  !.made = TRUE,
                  !.task = generate_api_request(
                               upload_images_list(
                                   TaskInit(<<"a", "_", "1">>, UnitList, TRUE),
                                   UnitBlob),
                               read_only_sas_url)]

NextPoll ==
    \/ Construct(<<"a", "_", "1">>, UnitList, TRUE, TRUE, TRUE)
    \/ \E response \in SubmitResponses(Len(remote) + 1) : Submit(response)
    \/ \E rid \in 1..(MaxUnitRemote + 1) : AssignId(rid)
    \/ \E http_ok \in BOOLEAN : CheckStatus(http_ok)
    \/ GetMissingImages
    \/ \E rid \in DOMAIN remote, http_ok \in BOOLEAN : FromTaskId(rid, http_ok)
    \/ Remote

PollSpec == InitPoll /\ [][NextPoll]_vars

\* one Task made from a local list, from the URL of a list, or from the id of
\* a request, and what the later calls do to its two list references
InitSource ==
    /\ Idle
    /\ naming = NoNaming
    /\ files = (UnitList :> <<1, 2>>)
    /\ blobs = (UnitUrl :> <<1, 2>>)
    /\ remote = <<>>
    /\ unit = NoUnit

NextSource ==
    \/ \E local \in BOOLEAN :
           Construct(<<"a", "_", "1">>, IF local THEN UnitList ELSE UnitUrl,
                     local, TRUE, TRUE)
    \/ Upload
    \/ GenerateRequest(read_only_sas_url, "None", NoKwargs)
    \/ \E response \in SubmitResponses(Len(remote) + 1) : Submit(response)
    \/ \E http_ok \in BOOLEAN : CheckStatus(http_ok)
    \/ \E rid \in DOMAIN remote, http_ok \in BOOLEAN : FromTaskId(rid, http_ok)
    \/ Remote

SourceSpec == InitSource /\ [][NextSource]_vars

(* ------------------------------ properties ---------------------------- *)

InputSet(task) == Range(files[task.local_images_list_path])

Enumerated(i) == Range(files[ListPath(i)])

Superseded(i, j) ==
    \E k \in DOMAIN synthesized_from[i] : synthesized_from[i][k][1] = j

NoDuplicates(s) == \A a, b \in DOMAIN s : a # b => s[a] # s[b]

\* the images the service reports as submitted and not processed
RemoteMissing(rid) == Range(remote[rid].images) \ Range(remote[rid].detections)

\* the iterations of the last pass that obtained a missing list
Obtained == {k \in DOMAIN pass_log : pass_log[k].outcome = "none"}

\* C1: for every task whose missing list was obtained in a reconciliation
\* pass, the list is on file, whether or not a resubmission was decided, and
\* every image the service reports under 'images' is in the detections or in
\* that list.
C1_NoItemDropped ==
    \A rid \in reconciled :
        /\ MissingPath(rid) \in DOMAIN files
        /\ Range(remote[rid].images) \subseteq
               Range(remote[rid].detections) \cup Range(files[MissingPath(rid)])

C1_Witness ==
    \E rid \in reconciled :
        /\ MissingPath(rid) \in DOMAIN files
        /\ files[MissingPath(rid)] # <<>>
        /\ Tolerable(Len(files[MissingPath(rid)]))
        /\ remote[rid].detections # <<>>

\* C2 as stated: the input sets of the tasks of a taskgroup that are not
\* superseded (no task was synthesized from them) cover the folder's list.
C2_Original ==
    taskgroups # NoAttr =>
        \A i \in Folders :
            Enumerated(i) \subseteq
                UNION {InputSet(taskgroups[i][j]) :
                          j \in {m \in DOMAIN taskgroups[i] : ~Superseded(i, m)}}

\* C2, amended: the input sets of all the tasks of a taskgroup, the
\* superseded ones included, cover the folder's list, after building and
\* after any number of reconciliation passes.
C2_AllTasksCover ==
    taskgroups # NoAttr =>
        \A i \in Folders :
            Enumerated(i) \subseteq
                UNION {InputSet(taskgroups[i][j]) : j \in DOMAIN taskgroups[i]}

C2_Witness ==
    /\ taskgroups # NoAttr
    /\ \E i \in Folders : \E j, k \in DOMAIN taskgroups[i] :
           /\ synthesized_from[i][k][1] = j
           /\ InputSet(taskgroups[i][k]) # InputSet(taskgroups[i][j])
           /\ Len(taskgroups[i]) >= 3

\* C3: the list get_missing_images returns is the set of the images the
\* service reports under 'images' minus the 'file' fields of its detections:
\* no entry twice, no processed image.
C3_MissingIsDifference ==
    \A k \in Obtained :
        LET e == pass_log[k]
        IN  /\ Range(e.missing) = RemoteMissing(e.rid)
            /\ NoDuplicates(e.missing)
            /\ Range(e.missing) \cap Range(remote[e.rid].detections) = {}

C3_Witness ==
    \E k \in Obtained :
        LET e == pass_log[k]
        IN  /\ e.missing # <<>>
            /\ remote[e.rid].detections # <<>>
            /\ ~NoDuplicates(remote[e.rid].images)

\* the tasks the last pass appended for iteration k
MadeFor(k) ==
    LET e == pass_log[k]
    IN  {p \in Range(resubmitted_tasks) :
            /\ p[1] = e.pos[1]
            /\ synthesized_from[p[1]][p[2]] = <<e.pos[2], e.rid>>}

\* C4: a task of the pass with fewer missing images than the tolerance gets
\* no new task; one with as many or more gets exactly one, appended to its
\* own taskgroup, whose images list is the missing list.
C4_DecisionRule ==
    \A k \in Obtained :
        LET e == pass_log[k]
        IN  IF Len(e.missing) < max_tolerable_missing_images
            THEN MadeFor(k) = {}
            ELSE /\ Cardinality(MadeFor(k)) = 1
                 /\ \A p \in MadeFor(k) :
                        /\ p[2] > e.pos[2]
                        /\ files[taskgroups[p[1]][p[2]].local_images_list_path]
                               = e.missing

C4_Witness ==
    \E k \in Obtained :
        /\ Len(pass_log[k].missing) = max_tolerable_missing_images
        /\ Cardinality(MadeFor(k)) = 1

\* C5: no task is synthesized from a synthesized task that completed with no
\* missing image.
C5_FixedPoint ==
    taskgroups # NoAttr =>
        \A i \in Folders : \A k \in DOMAIN taskgroups[i] :
            LET src == synthesized_from[i][k]
            IN  (src[1] # 0 /\ synthesized_from[i][src[1]][1] # 0)
                    => RemoteMissing(src[2]) # {}

C5_Witness ==
    \E k \in Obtained :
        /\ pass_log[k].missing = <<>>
        /\ synthesized_from[pass_log[k].pos[1]][pass_log[k].pos[2]][1] # 0

\* ceil(a / b), for b > 0, by its definition
Ceil(a, b) == CHOOSE q \in 0..a : q * b >= a /\ (q = 0 \/ (q - 1) * b < a)

\* C6: the chunks divide_chunks returns, concatenated in index order, are
\* the input list, and there are ceil(len(l) / n) of them (none for an empty
\* list).
C6_ChunksConcatenate ==
    ret_chunks.returned =>
        /\ Flatten(ret_chunks.chunks) = arg_l
        /\ Len(ret_chunks.chunks) = Ceil(Len(arg_l), arg_n)

C6_Witness ==
    /\ ret_chunks.returned
    /\ Len(ret_chunks.chunks) >= 2
    /\ Len(arg_l) % arg_n # 0
    /\ ~NoDuplicates(arg_l)

\* C7: every chunk divide_chunks returns but the last has exactly n items,
\* the last has between 1 and n; no chunk is empty, none has more than n.
C7_ChunkSizes ==
    ret_chunks.returned =>
        \A i \in DOMAIN ret_chunks.chunks :
            IF i < Len(ret_chunks.chunks)
            THEN Len(ret_chunks.chunks[i]) = arg_n
            ELSE Len(ret_chunks.chunks[i]) \in 1..arg_n

C7_Witness ==
    /\ ret_chunks.returned
    /\ Len(ret_chunks.chunks) >= 2
    /\ Len(arg_l) % arg_n = 0
    /\ arg_n >= 2

\* the images of a combined output that were not requested for the folder
ExtraImages(i) == Range(files[CombinedPath(i)]) \ Enumerated(i)

\* the number of images requested for the folder that its combined output
\* lacks
NumMissing(i) == Cardinality(Enumerated(i) \ Range(files[CombinedPath(i)]))

\* C8 as stated: a combined output with an image that was not requested
\* fails the 'extra images' assertion, whatever the number of missing images.
C8_Original ==
    \A i \in DOMAIN checked :
        ExtraImages(i) # {} => checked[i] = "AssertionError:464"

\* C8, amended: a combined output with an image that was not requested always
\* fails an assertion of the cross-check: the 'extra images' assertion when
\* fewer images than the tolerance are missing, and already the assertion on
\* the number of missing images otherwise.
C8_ExtraAlwaysFails ==
    \A i \in DOMAIN checked :
        ExtraImages(i) # {} =>
            checked[i] = IF NumMissing(i) < max_tolerable_missing_images
                         THEN "AssertionError:464"
                         ELSE "AssertionError:459"

C8_Witness ==
    \E i \in DOMAIN checked :
        /\ ExtraImages(i) # {}
        /\ NumMissing(i) > 0
        /\ checked[i] = "AssertionError:464"

Inconsistent ==
    {k \in DOMAIN pass_log :
        /\ pass_log[k].outcome \in {"none", "AssertionError:300"}
        /\ ~(Range(remote[pass_log[k].rid].failed_images)
                \subseteq RemoteMissing(pass_log[k].rid))}

\* C10 as stated: failed images that are not all missing are a warning that
\* does not end the pass: the missing list of the task is obtained and the
\* remaining tasks are reconciled.
C10_Original ==
    \A k \in Inconsistent :
        /\ pass_log[k].outcome = "none"
        /\ pass_log[k].rid \in reconciled

\* C10, amended: failed images that are not all missing are never ignored:
\* get_missing_images raises an AssertionError, no missing list of that task
\* is obtained or written, and the pass ends at that task with the error.
C10_InconsistencyIsFatal ==
    \A k \in Inconsistent :
        /\ pass_log[k].outcome = "AssertionError:300"
        /\ pass_log[k].rid \notin reconciled
        /\ MissingPath(pass_log[k].rid) \notin DOMAIN files
        /\ k = Len(pass_log)

C10_Witness ==
    \E k \in Inconsistent :
        /\ pass_log[k].outcome = "AssertionError:300"
        /\ k < Len(pass_work)
        /\ error = "AssertionError:300"

\* C12 as stated: when a submit of the cell "Run the tasks" fails (HTTP
\* error or BatchAPISubmissionError), submit is still called for every other
\* task the cell found.
C12_Original ==
    \A k \in DOMAIN submit_log.outcomes :
        submit_log.outcomes[k] \in SubmitErrors =>
            Len(submit_log.outcomes) = Len(submit_log.work)

\* C12, amended: the first submit that raises ends the cell "Run the tasks":
\* it is the last call the cell makes, and the tasks after it in iteration
\* order are not submitted.
C12_FirstFailureEndsStep ==
    /\ Len(submit_log.outcomes) <= Len(submit_log.work)
    /\ \A k \in DOMAIN submit_log.outcomes :
           submit_log.outcomes[k] # "returned" => k = Len(submit_log.outcomes)
    /\ Len(submit_log.outcomes) < Len(submit_log.work) =>
           /\ submit_log.outcomes # <<>>
           /\ submit_log.outcomes[Len(submit_log.outcomes)] # "returned"

C12_Witness ==
    \E k \in DOMAIN submit_log.outcomes :
        /\ submit_log.outcomes[k] \in SubmitErrors
        /\ k > 1
        /\ k < Len(submit_log.work)

\* the last call on the Task was this method, and it returned / it raised
Returned(method) == unit.called.method = method /\ unit.called.raised = "none"
Raised(method) == unit.called.method = method /\ unit.called.raised # "none"

\* C11 as stated: a Task has no id after its construction; only a submit
\* that returns gives it one, which is the value returned; after a submit
\* that raises the Task has no id.
C11_Original ==
    /\ Returned("__init__") => unit.task.id = NoId
    /\ Returned("submit") => unit.task.id # NoId /\ unit.called.returned = unit.task.id
    /\ Raised("submit") => unit.task.id = NoId
    /\ (unit.task.id # NoId /\ unit.task.id # unit.called.before.id)
           => Returned("submit")

\* C11, amended: a Task has no id after Task.__init__; a submit that returns
\* stores the id of the new request and returns it; a submit that raises
\* leaves the Task as it was, with the id it had or without one; an id is
\* also given by from_task_id and by the driver's assignment to task.id.
C11_IdAssignment ==
    /\ Returned("__init__") => unit.task.id = NoId
    /\ Returned("submit") =>
           /\ unit.task.id = Len(remote)
           /\ unit.called.returned = unit.task.id
           /\ unit.task = [unit.called.before EXCEPT !.id = unit.task.id]
    /\ Raised("submit") => unit.task = unit.called.before
    /\ (unit.task.id # NoId /\ unit.task.id # unit.called.before.id)
           => \/ Returned("submit")
              \/ Returned("from_task_id")
              \/ Returned("task.id =")

C11_Witness ==
    /\ Raised("submit")
    /\ unit.called.raised \in SubmitErrors
    /\ unit.task.id # NoId
    /\ unit.task.id \in DOMAIN remote

\* C13: the request generate_api_request produces has 'input_container_sas'
\* and not 'use_url' when a container URL is given, and 'use_url' and not
\* 'input_container_sas' when none is given, whatever the extra parameters.
C13_ExactlyOneMode ==
    Returned("generate_api_request") =>
        LET request == unit.task.api_request
        IN  IF unit.called.args.input_container_url # "None"
            THEN /\ "input_container_sas" \in DOMAIN request
                 /\ "use_url" \notin DOMAIN request
            ELSE /\ "use_url" \in DOMAIN request
                 /\ "input_container_sas" \notin DOMAIN request

\* C14: a check_status that returns has replaced the Task's response by the
\* status it returns and left name, list references, request and id
\* as they were, whatever the response was before (so it can be repeated); a
\* check_status that raises leaves every field, the stored response
\* included, as it was.
C14_PureRefresh ==
    unit.called.method = "check_status" =>
        IF unit.called.raised = "none"
        THEN unit.task = [unit.called.before EXCEPT
                             !.response = unit.called.returned]
        ELSE unit.task = unit.called.before

\* a poll failed at the HTTP layer on a Task that an earlier poll had found
\* running, and the stored status is still that one
C14_Witness ==
    /\ Raised("check_status")
    /\ unit.called.raised = "HTTPError"
    /\ unit.called.before.response.request_status = "running"
    /\ unit.task.response = unit.called.before.response

\* the images list a construction was given, and its length with the padding
ConstructedList ==
    IF unit.called.args.local THEN files[UnitList] ELSE blobs[UnitUrl]

ConstructedLen == Len(ConstructedList) + unit.n_more

AllImages(images_list) ==
    \A k \in DOMAIN images_list : is_image_file(images_list[k])

\* a construction with validate=True that obtained its images list
Validated ==
    /\ unit.called.method = "__init__"
    /\ unit.called.args.validate
    /\ unit.called.raised # "ConnectionError"

\* C15: a validating construction raises ValueError for a list of more than
\* MAX_FILES_PER_API_TASK entries (MAX_FILES_PER_API_TASK + 1 included) and
\* returns for a list of exactly MAX_FILES_PER_API_TASK images.
C15_InclusiveLimit ==
    Validated =>
        /\ ConstructedLen > MAX_FILES_PER_API_TASK
               => unit.called.raised = "ValueError"
        /\ ConstructedLen = MAX_FILES_PER_API_TASK /\ AllImages(ConstructedList)
               => unit.called.raised = "none"

\* a validating construction accepted a list of exactly MAX_FILES_PER_API_TASK
\* images
C15_Witness ==
    /\ Validated
    /\ ConstructedLen = MAX_FILES_PER_API_TASK
    /\ Len(ConstructedList) > 0
    /\ unit.called.raised = "none"
    /\ unit.made

\* a validating construction rejected a list of MAX_FILES_PER_API_TASK + 1
\* images
C15_Rejected ==
    /\ Validated
    /\ ConstructedLen = MAX_FILES_PER_API_TASK + 1
    /\ AllImages(ConstructedList)
    /\ unit.called.raised = "ValueError"

\* C16: a validating construction raises ValueError when some entry of the
\* list is not an image and returns when the list is within the limit and
\* all its entries are images; a construction with validate=False returns
\* whatever the list is.
C16_Validation ==
    unit.called.method = "__init__" =>
        IF unit.called.args.validate
        THEN Validated =>
                /\ ~AllImages(ConstructedList)
                       => unit.called.raised = "ValueError"
                /\ (AllImages(ConstructedList)
                        /\ ConstructedLen <= MAX_FILES_PER_API_TASK)
                       => unit.called.raised = "none"
        ELSE unit.called.raised = "none"

\* a validating construction rejected a list within the limit whose first
\* entry is an image and whose second is not
C16_Witness ==
    /\ Validated
    /\ ConstructedLen <= MAX_FILES_PER_API_TASK
    /\ Len(ConstructedList) = 2
    /\ is_image_file(ConstructedList[1])
    /\ ~is_image_file(ConstructedList[2])
    /\ unit.called.raised = "ValueError"

\* a construction with validate=False returned for a list that is too long
\* and holds an entry that is not an image
C16_Unvalidated ==
    /\ unit.called.method = "__init__"
    /\ ~unit.called.args.validate
    /\ ConstructedLen > MAX_FILES_PER_API_TASK
    /\ ~AllImages(ConstructedList)
    /\ unit.called.raised = "none"

\* C17: clean_request_name of a result is that result, a second call with
\* the same name returns the same result, and a Task constructed under a
\* result of clean_request_name has exactly that name.
C17_Idempotent ==
    /\ Len(naming.calls) >= 2 => naming.calls[2] = naming.calls[1]
    /\ Len(naming.calls) >= 3 => naming.calls[3] = naming.calls[1]
    /\ Returned("__init__") /\ unit.called.args.name \in Range(naming.calls)
           => unit.task.name = unit.called.args.name

\* a name over the limit with characters outside the whitelist was cleaned
\* three times, and a Task was made under the result
C17_Witness ==
    /\ Len(naming.calls) = 3
    /\ Len(naming.x) > REQUEST_NAME_CHAR_LIMIT + 1
    /\ naming.calls[1] # SubSeq(naming.x, 1, REQUEST_NAME_CHAR_LIMIT)
    /\ Len(naming.calls[1]) = REQUEST_NAME_CHAR_LIMIT
    /\ Returned("__init__")
    /\ unit.called.args.name = naming.calls[1]
    /\ unit.task.name = naming.calls[1]

\* a name of whitelisted characters within the limit
ValidName(name) ==
    /\ \A k \in DOMAIN name : name[k] \in VALID_REQUEST_NAME_CHARS
    /\ Len(name) <= REQUEST_NAME_CHAR_LIMIT

\* C18: every result of clean_request_name holds only ASCII letters, digits,
\* hyphen and underscore and is at most REQUEST_NAME_CHAR_LIMIT characters
\* long, and so is the name of every Task.
C18_ValidNames ==
    /\ \A k \in DOMAIN naming.calls : ValidName(naming.calls[k])
    /\ unit.made => ValidName(unit.task.name)

\* a non-empty name made only of characters outside the whitelist was
\* cleaned to the empty name, and a Task was made under the name
C18_Witness ==
    /\ naming.x # <<>>
    /\ \A k \in DOMAIN naming.x : naming.x[k] \notin VALID_REQUEST_NAME_CHARS
    /\ Len(naming.calls) >= 1
    /\ naming.calls[1] = <<>>
    /\ Returned("__init__")
    /\ unit.called.args.name = naming.x
    /\ unit.task.name = <<>>

\* the empty name was cleaned
C18_Empty ==
    /\ naming.x = <<>>
    /\ Len(naming.calls) >= 1
    /\ naming.calls[1] = <<>>

\* a name over the limit was cleaned to a name of exactly the limit, and a
\* Task was made under the long name
C18_Truncated ==
    /\ Len(naming.x) > REQUEST_NAME_CHAR_LIMIT
    /\ Len(naming.calls) >= 1
    /\ Len(naming.calls[1]) = REQUEST_NAME_CHAR_LIMIT
    /\ Returned("__init__")
    /\ unit.called.args.name = naming.x
    /\ unit.task.name = naming.calls[1]

\* C19: no two Tasks of the taskgroups, Tasks made for missing images
\* included, have the same name.
C19_UniqueNames ==
    taskgroups # NoAttr =>
        \A i1 \in DOMAIN taskgroups, i2 \in DOMAIN taskgroups :
            \A j1 \in DOMAIN taskgroups[i1], j2 \in DOMAIN taskgroups[i2] :
                <<i1, j1>> # <<i2, j2>>
                    => taskgroups[i1][j1].name # taskgroups[i2][j2].name

\* a submit that posted its request, and the two rejections of the service
Posted == unit.called.method = "submit" /\ unit.called.before.api_request # NoAttr

HasError(response) == response.http_ok /\ "error" \in DOMAIN response.json

Malformed(response) ==
    /\ response.http_ok
    /\ "error" \notin DOMAIN response.json
    /\ "request_id" \notin DOMAIN response.json

\* C20 as stated: a response with an 'error' field raises an error with the
\* server's message, and the class of the error raised for a response with
\* an 'error' field is never the class raised for a response without
\* 'error' and without 'request_id'.
C20_Original ==
    Posted /\ (HasError(unit.called.args) \/ Malformed(unit.called.args)) =>
        /\ unit.called.raised # "none"
        /\ HasError(unit.called.args)
               => unit.called.message = <<unit.called.args.json.error>>
        /\ \A other \in SubmitResponses(Len(remote) + 1) :
               \/ HasError(unit.called.args) /\ Malformed(other)
               \/ Malformed(unit.called.args) /\ HasError(other)
               => ExceptionClass(SubmitAnswer(other))
                      # ExceptionClass(unit.called.raised)

\* C20, amended: both rejections raise the one class BatchAPISubmissionError,
\* which is not the class of an HTTP failure; they differ in the message
\* only, which is the server's message for a response with an 'error' field
\* and a fixed text followed by the response for a response without 'error'
\* and without 'request_id'.
C20_OneErrorKind ==
    Posted =>
        /\ ~unit.called.args.http_ok
               => ExceptionClass(unit.called.raised) = "HTTPError"
        /\ HasError(unit.called.args) =>
               /\ ExceptionClass(unit.called.raised) = "BatchAPISubmissionError"
               /\ unit.called.message = <<unit.called.args.json.error>>
        /\ Malformed(unit.called.args) =>
               /\ ExceptionClass(unit.called.raised) = "BatchAPISubmissionError"
               /\ unit.called.message =
                      <<"\"request_id\" not in API response: ",
                        unit.called.args.json>>
        /\ unit.called.raised = "none" <=>
               /\ unit.called.args.http_ok
               /\ "error" \notin DOMAIN unit.called.args.json
               /\ "request_id" \in DOMAIN unit.called.args.json

\* a posted request was answered without 'error' and without 'request_id',
\* and submit raised BatchAPISubmissionError
C20_Witness ==
    /\ Posted
    /\ Malformed(unit.called.args)
    /\ unit.called.args.json # NoKwargs
    /\ ExceptionClass(unit.called.raised) = "BatchAPISubmissionError"
    /\ unit.task = unit.called.before

\* C21: divide_chunks(l, n) with n <= 0 returns no list of chunks, for any
\* list l: the call ends in an error.
C21_NonPositiveFails ==
    arg_n <= 0 /\ ret_chunks # NoChunks =>
        /\ ~ret_chunks.returned
        /\ ret_chunks.error # "none"

\* C22 as stated: when the cross-check of one taskgroup fails, every other
\* taskgroup is still combined and cross-checked.
C22_Original ==
    (\E i \in DOMAIN checked : checked[i] # "none") =>
        \A m \in Folders :
            /\ m \in DOMAIN checked
            /\ m \in DOMAIN folder_name_to_combined_output_file

\* C22, amended: the taskgroups are combined in order and the first
\* cross-check that fails ends the cell: the combined output of the failing
\* taskgroup has been written and recorded before, the taskgroups before it
\* passed their cross-check, and no taskgroup after it is combined or
\* cross-checked.
C22_FirstFailureEndsCell ==
    \A i \in DOMAIN checked :
        /\ i \in DOMAIN folder_name_to_combined_output_file
        /\ folder_name_to_combined_output_file[i] \in DOMAIN files
        /\ checked[i] # "none" =>
              \A m \in Folders :
                    /\ m < i => m \in DOMAIN checked /\ checked[m] = "none"
                    /\ m > i => /\ m \notin DOMAIN checked
                                /\ m \notin DOMAIN folder_name_to_combined_output_file

\* the cross-check of the first taskgroup failed, and the second taskgroup,
\* whose results files are all there, was not combined
C22_Witness ==
    /\ 1 \in DOMAIN checked
    /\ checked[1] # "none"
    /\ 1 \in DOMAIN folder_name_to_combined_output_file
    /\ 2 \notin DOMAIN checked
    /\ taskgroups[2] # <<>>
    /\ \A j \in DOMAIN taskgroups[2] :
           taskgroups[2][j].id \in DOMAIN task_id_to_results_file

\* C23: no Task is submitted twice: the requests on the remote side were
\* made for pairwise different Tasks, however often the cell "Run the tasks"
\* is run.
C23_SubmittedOnce ==
    \A r1 \in DOMAIN remote, r2 \in DOMAIN remote :
        r1 # r2 =>
            remote[r1].request.request_name # remote[r2].request.request_name

\* C24: over any number of reconciliation passes, at most one Task of a
\* taskgroup was synthesized from one completion of one Task (the Task and
\* the remote id it had).
C24_OneSynthesizedPerCompletion ==
    synthesized_from # NoAttr =>
        \A i \in DOMAIN synthesized_from :
            \A j1 \in DOMAIN synthesized_from[i], j2 \in DOMAIN synthesized_from[i] :
                j1 # j2 /\ synthesized_from[i][j1] # <<0, 0>>
                    => synthesized_from[i][j1] # synthesized_from[i][j2]

\* the Tasks of taskgroup i that were synthesized for missing images, and
\* the requests made for taskgroup i that completed with as many missing
\* images as the tolerance, or more
Synthesized(i) ==
    {j \in DOMAIN synthesized_from[i] : synthesized_from[i][j] # <<0, 0>>}

Episodes(i) ==
    {rid \in DOMAIN remote :
        /\ remote[rid].request_status = "completed"
        /\ remote[rid].request.request_name[2] = i
        /\ Cardinality(RemoteMissing(rid)) >= max_tolerable_missing_images}

\* C25: a reconciliation pass visits only Tasks that were in the taskgroups
\* when it started, and a taskgroup never holds more synthesized Tasks than
\* there were completions of its requests with as many missing images as the
\* tolerance, or more.
C25_BoundedFeedback ==
    /\ \A k \in DOMAIN pass_log : pass_log[k].pos \in Range(pass_work)
    /\ synthesized_from # NoAttr =>
           \A i \in DOMAIN synthesized_from :
               Cardinality(Synthesized(i)) <= Cardinality(Episodes(i))

\* the first half of C25 alone: the pass visits, in order, the Tasks it found
C25_VisitsOnlyFound ==
    /\ Len(pass_log) <= Len(pass_work)
    /\ \A k \in DOMAIN pass_log : pass_log[k].pos = pass_work[k]

\* C26: a pass over the taskgroups polls only Tasks that have a remote id;
\* in particular no iteration of a pass is made on a synthesized Task that
\* has no id yet, and none ends in the AttributeError of reading the id that
\* is not there.
C26_OnlySubmittedPolled ==
    \A k \in DOMAIN pass_log :
        LET pos == pass_log[k].pos
        IN  synthesized_from[pos[1]][pos[2]] # <<0, 0>> =>
                /\ pass_log[k].rid # NoId
                /\ pass_log[k].outcome # "AttributeError"

\* C27: get_missing_images returns a list only for a Task whose last status
\* is completed; for a last status of running, failed or problem it raises
\* the AssertionError of its first line, returns no list and leaves the Task
\* as it was.
C27_OnlyCompleted ==
    unit.called.method = "get_missing_images" =>
        /\ unit.task = unit.called.before
        /\ unit.called.raised = "none"
               => unit.task.response.request_status = "completed"
        /\ unit.task.response.request_status \in {"running", "failed", "problem"}
               => /\ unit.called.raised = "AssertionError:271"
                  /\ unit.called.returned = <<>>

\* get_missing_images was called on a Task last seen running whose request
\* has failed since
C27_Witness ==
    /\ Raised("get_missing_images")
    /\ unit.task.response.request_status = "running"
    /\ unit.task.id \in DOMAIN remote
    /\ remote[unit.task.id].request_status \in {"failed", "problem"}

\* get_missing_images returned the missing images of a completed Task
C27_Returned ==
    /\ Returned("get_missing_images")
    /\ unit.called.returned # <<>>

\* the second half of C27, in the driver: an iteration of a reconciliation
\* pass on a Task whose last status is not completed obtains no missing list
\* and no Task is made for it
C27_NothingFromUnfinished ==
    \A k \in DOMAIN pass_log :
        LET pos == pass_log[k].pos
        IN  taskgroups[pos[1]][pos[2]].response.request_status # "completed" =>
                /\ pass_log[k].outcome # "none"
                /\ MadeFor(k) = {}
                /\ pass_log[k].rid \notin reconciled
                /\ MissingPath(pass_log[k].rid) \notin DOMAIN files

\* the list references of a Task that are set
HasLocal(task) == task.local_images_list_path # NoAttr
HasRemote(task) == task.remote_images_list_url # NoAttr

\* C28 as stated: a Task has its local images list path or its remote images
\* list URL, never both and never neither.
C28_Original ==
    unit.made => (HasLocal(unit.task) <=> ~HasRemote(unit.task))

\* C28, amended: a Task always has at least one of the two references.
\* After Task.__init__ it has exactly one, the local path for local=True and
\* the URL for local=False; after from_task_id it has the URL only; after an
\* upload_images_list that returns it has both, the local path as before; an
\* upload_images_list on a Task without a local path raises and changes
\* nothing; no other call changes either reference.
C28_InputSource ==
    unit.made =>
        /\ HasLocal(unit.task) \/ HasRemote(unit.task)
        /\ Returned("__init__") =>
               /\ HasLocal(unit.task) <=> unit.called.args.local
               /\ HasRemote(unit.task) <=> ~unit.called.args.local
        /\ Returned("from_task_id") =>
               ~HasLocal(unit.task) /\ HasRemote(unit.task)
        /\ Returned("upload_images_list") =>
               /\ HasLocal(unit.task) /\ HasRemote(unit.task)
               /\ unit.task.local_images_list_path
                      = unit.called.before.local_images_list_path
        /\ Raised("upload_images_list") =>
               ~HasLocal(unit.called.before) /\ unit.task = unit.called.before
        /\ unit.called.method \in {"generate_api_request", "submit", "check_status"} =>
               /\ unit.task.local_images_list_path
                      = unit.called.before.local_images_list_path
               /\ unit.task.remote_images_list_url
                      = unit.called.before.remote_images_list_url

\* the list of a Task made from a local path was uploaded, and the Task has
\* both references
C28_Witness ==
    /\ Returned("upload_images_list")
    /\ HasLocal(unit.called.before)
    /\ ~HasRemote(unit.called.before)
    /\ HasLocal(unit.task)
    /\ HasRemote(unit.task)

\* a Task was made by from_task_id
C28_FromTaskId ==
    /\ Returned("from_task_id")
    /\ HasRemote(unit.task)

\* what a step leaves of the Tasks it found: each is at its place with its
\* name, its list references and the lists behind them, its request and its
\* id, and the Tasks after them are Tasks made for missing images
TasksKept ==
    \A i \in Folders :
        /\ Len(taskgroups'[i]) >= Len(taskgroups[i])
        /\ \A j \in DOMAIN taskgroups[i] :
               LET old == taskgroups[i][j]
                   new == taskgroups'[i][j]
               IN  /\ new.name = old.name
                   /\ new.id = old.id
                   /\ new.api_request = old.api_request
                   /\ new.local_images_list_path = old.local_images_list_path
                   /\ new.remote_images_list_url = old.remote_images_list_url
                   /\ files'[new.local_images_list_path]
                          = files[old.local_images_list_path]
                   /\ blobs'[new.remote_images_list_url]
                          = blobs[old.remote_images_list_url]
        /\ \A j \in (Len(taskgroups[i]) + 1)..Len(taskgroups'[i]) :
               /\ synthesized_from'[i][j] # <<0, 0>>
               /\ taskgroups'[i][j].id = NoId

\* C29: a reconciliation pass leaves every Task it found at its position
\* with its name, input set and remote id, and changes a taskgroup only by
\* appending Tasks made for missing images at its end.
C29_ResubmissionIsNewTask == [][Reconcile => TasksKept]_vars

\* a pass appended a Task for the missing images of a Task that is still at
\* its place with its id
C29_Witness ==
    /\ taskgroups # NoAttr
    /\ n_resubmissions >= 1
    /\ \E p \in Range(resubmitted_tasks) :
           LET src == synthesized_from[p[1]][p[2]]
           IN  /\ p[2] = Len(taskgroups[p[1]])
               /\ src[1] < p[2]
               /\ taskgroups[p[1]][src[1]].id = src[2]
               /\ taskgroups[p[1]][p[2]].id = NoId
               /\ taskgroups[p[1]][p[2]].name # taskgroups[p[1]][src[1]].name

=============================================================================
